---------------------------- MODULE Spec2Model ----------------------------
(***************************************************************************)
(* A model of ggpk-index-server: the version watcher (index/updater.rs),   *)
(* the catalog ingester (index/ggpk.rs), the full-text index it writes to  *)
(* (tantivy, seen through the calls the repository makes) and the two      *)
(* request handlers (routes/browse.rs, routes/version.rs).                 *)
(*                                                                         *)
(* Strings are sequences of one-character strings, so that splitting,      *)
(* prefix tests and byte-wise comparison are computed, not assumed.        *)
(* Option<T> is a sequence: << >> is None and <<v>> is Some(v).            *)
(***************************************************************************)
EXTENDS Integers, Sequences, FiniteSets, TLC

VARIABLES
    urls,        \* AppState.urls: the live list (Vec<String> behind the RwLock)
    committed,   \* the index as of its last commit: a sequence of documents
    readerView,  \* the segments the long-lived IndexReader currently serves
    commits,     \* history: the states the index has been committed in
    w_pc,        \* position of the watch() loop
    updated,     \* watch(): the candidate list of this tick
    removed,     \* watch(): prev \ updated
    added,       \* watch(): updated \ prev
    staged,      \* try_reindex(): the writer's uncommitted batch
    w_result,    \* what the last reindex() of this tick ended as
    ticks,       \* ticks started so far
    tick0,       \* history: live list and index when the tick started
    probeFailed, \* history: a probe of this tick failed or timed out
    shortRecord, \* history: a probe of this tick was answered a record that
                 \* declares more code units than the buffer holds
    h_pc,        \* position of the /files request being served
    h_req,       \* its query parameters
    h_storages,  \* its clone of the live list
    h_adapter,   \* its selected adapter
    h_searcher,  \* its Searcher: the segments it reads
    h_found,     \* the addresses its search collected
    h_resp,      \* its response
    v_resp,      \* the last /version response
    cat,         \* ingestion alone: the catalog served for the version
    ing,         \* ingestion alone: what index() returned and wrote
    table,       \* decoding alone: the path table handed to decode_paths
    dec          \* decoding alone: the locals of decode_paths and its calls

vars == <<urls, committed, readerView, commits, w_pc, updated, removed, added,
          staged, w_result, ticks, tick0, probeFailed, shortRecord, h_pc, h_req,
          h_storages,
          h_adapter, h_searcher, h_found, h_resp, v_resp, cat, ing, table, dec>>

watcherVars == <<urls, committed, readerView, commits, w_pc, updated, removed,
                 added, staged, w_result, ticks, tick0, probeFailed,
                   shortRecord>>
handlerVars == <<h_pc, h_req, h_storages, h_adapter, h_searcher, h_found, h_resp>>
ingestVars  == <<cat, ing, table, dec>>
decodeVars  == <<table, dec>>

-----------------------------------------------------------------------------
(* Bounds of the model *)

\* ticks of the watcher loop that are explored
MaxTicks == 3
\* ticks of the watcher loop that are explored while /files is served
MaxServeTicks == 2
\* emitted paths of a catalog when ingestion is explored alone
MaxPaths == 2
\* records of a path table when decoding is explored alone
MaxRecords == 4

-----------------------------------------------------------------------------
(* Strings *)

Range(s) == {s[i] : i \in 1..Len(s)}

Max(S) == CHOOSE x \in S : \A y \in S : y <= x

None == << >>
Some(v) == <<v>>

\* the code point of a character (ASCII), for byte-wise comparison
Code(c) ==
    CASE c = "." -> 46 [] c = "/" -> 47
      [] c = "S" -> 83 [] c = "X" -> 88
      [] c = "a" -> 97 [] c = "b" -> 98 [] c = "c" -> 99 [] c = "d" -> 100
      [] c = "e" -> 101 [] c = "i" -> 105 [] c = "p" -> 112
      [] c = "r" -> 114 [] c = "s" -> 115 [] c = "t" -> 116
      [] c = "x" -> 120 [] c = "y" -> 121 [] c = "z" -> 122
      [] OTHER -> 0

\* str::to_lowercase on the characters of the model
ToLowerChar(c) == CASE c = "S" -> "s" [] c = "X" -> "x" [] OTHER -> c
to_lowercase(s) == [i \in 1..Len(s) |-> ToLowerChar(s[i])]

\* str::rsplit_once(c): None, or Some((before the last c, after it))
rsplit_once(s, c) ==
    LET at == {i \in 1..Len(s) : s[i] = c}
    IN  IF at = {} THEN None
        ELSE LET k == Max(at)
             IN  <<SubSeq(s, 1, k - 1), SubSeq(s, k + 1, Len(s))>>

starts_with(s, p) == Len(p) <= Len(s) /\ SubSeq(s, 1, Len(p)) = p

\* Ord for str: lexicographic on bytes, a proper prefix first
RECURSIVE StrLess(_, _)
StrLess(a, b) ==
    IF b = << >> THEN FALSE
    ELSE IF a = << >> THEN TRUE
    ELSE IF Code(Head(a)) # Code(Head(b)) THEN Code(Head(a)) < Code(Head(b))
    ELSE StrLess(Tail(a), Tail(b))

S_art == <<"a", "r", "t">>
S_txt == <<"t", "x", "t">>
S_art_sprites == <<"a", "r", "t", "/", "s", "p", "r", "i", "t", "e", "s">>

RECURSIVE SetToSeq(_)
SetToSeq(S) ==
    IF S = {} THEN << >>
    ELSE LET x == CHOOSE x \in S : TRUE IN <<x>> \o SetToSeq(S \ {x})

-----------------------------------------------------------------------------
(* Documents (index/ggpk.rs) *)

\* TantivyDocument::new(): no field has a value
EmptyDoc ==
    [version |-> << >>, path |-> << >>, name |-> << >>, parent |-> << >>,
     typ |-> "", extension |-> None, offset |-> None, size |-> None,
     bundle |-> None, bundle_size |-> None, sprite_sheet |-> None,
     sprite_txt |-> None, sprite_x |-> None, sprite_y |-> None,
     sprite_w |-> None, sprite_h |-> None]

\* filename.rsplit_once('/').unwrap_or((dflt, filename))
SplitDirName(filename, dflt) ==
    LET sp == rsplit_once(filename, "/")
    IN  IF sp = None THEN <<dflt, filename>> ELSE sp

\* to_doc: the File document of an emitted path. The file table is keyed by
\* the 64-bit hash of the path; the model keys it by the path that hashes to
\* the key. A path with no entry is logged and still gets its document,
\* without a locator. bundle_names[bundle_index] panics out of range.
to_doc(filename, version, c) ==
    LET dn == SplitDirName(filename, << >>)
        doc == [EmptyDoc EXCEPT !.version = version, !.path = filename,
                                !.name = dn[2], !.parent = dn[1], !.typ = "file"]
    IN  IF filename \in DOMAIN c.files
        THEN LET loc == c.files[filename]
             IN  IF loc[1] >= Len(c.bundle_names)
                 THEN [status |-> "panic", doc |-> doc]
                 ELSE [status |-> "ok",
                       doc |-> [doc EXCEPT !.offset = Some(loc[2]),
                                           !.size = Some(loc[3]),
                                           !.bundle = Some(c.bundle_names[loc[1] + 1]),
                                           !.bundle_size = Some(c.bundle_sizes[loc[1] + 1])]]
        ELSE [status |-> "ok", doc |-> doc]

\* as add_dirs, inserting the parent directory only
add_dirs_parent_only(filename, dirs) ==
    LET sp == rsplit_once(filename, "/")
    IN  IF sp = None THEN dirs ELSE dirs \cup {sp[1]}

\* add_dirs: walk up the prefixes, stop at the first one already in the set
RECURSIVE add_dirs(_, _)
add_dirs(filename, dirs) ==
    LET sp == rsplit_once(filename, "/")
    IN  IF sp = None THEN dirs
        ELSE IF sp[1] \in dirs THEN dirs
        ELSE add_dirs(sp[1], dirs \cup {sp[1]})

\* the closure passed to decode_paths, run on one emitted path
callback(filename, version, c, acc) ==
    LET r == to_doc(filename, version, c)
    IN  IF r.status # "ok" THEN [acc EXCEPT !.status = r.status]
        ELSE LET sp == rsplit_once(filename, ".")
                 doc == IF sp = None THEN r.doc
                        ELSE [r.doc EXCEPT !.extension = Some(sp[2])]
                 sprite == /\ sp # None
                           /\ sp[2] = S_txt
                           /\ starts_with(filename, S_art)
             IN  [status  |-> "ok",
                  docs    |-> Append(acc.docs, doc),
                  dirs    |-> add_dirs(filename, acc.dirs),
                  sprites |-> IF sprite THEN Append(acc.sprites, doc)
                              ELSE acc.sprites]

\* decode_paths(path_bundle, callback): the callback on every emitted path,
\* in order, until one fails
RECURSIVE emit_paths(_, _, _, _)
emit_paths(version, c, i, acc) ==
    IF i > Len(c.paths) \/ acc.status # "ok" THEN acc
    ELSE emit_paths(version, c, i + 1, callback(c.paths[i], version, c, acc))

\* storage.split('/').filter(non-empty).last() is Some
HasVersionSegment(storage) == \E i \in 1..Len(storage) : storage[i] # "/"

\* get_data: every locator field must be on the document, FRONTEND_URL set,
\* and the fetch must succeed; the body is then read as records
get_data(doc, c) ==
    IF \/ doc.size = None
       \/ doc.bundle = None
       \/ doc.bundle_size = None
       \/ doc.offset = None
       \/ ~HasVersionSegment(doc.version)
       \/ ~c.frontend
       \/ c.sprite_fetch # "ok"
    THEN [status |-> "err", rows |-> << >>]
    ELSE [status |-> "ok", rows |-> c.sprite_rows]

min(x, y) == IF x < y THEN x ELSE y

\* a u64 is four 16-bit limbs, the least significant first
LimbBase == 65536
U64(n) == <<n % LimbBase, n \div LimbBase, 0, 0>>
U64_MAX == <<LimbBase - 1, LimbBase - 1, LimbBase - 1, LimbBase - 1>>

RECURSIVE LimbsLess(_, _)
LimbsLess(a, b) ==
    IF a = << >> THEN FALSE
    ELSE LET n == Len(a)
         IN  IF a[n] # b[n] THEN a[n] < b[n]
             ELSE LimbsLess(SubSeq(a, 1, n - 1), SubSeq(b, 1, n - 1))

\* a - b for a >= b
RECURSIVE LimbsSub(_, _, _)
LimbsSub(a, b, borrow) ==
    IF a = << >> THEN << >>
    ELSE LET d == a[1] - b[1] - borrow
         IN  IF d < 0 THEN <<d + LimbBase>> \o LimbsSub(Tail(a), Tail(b), 1)
             ELSE <<d>> \o LimbsSub(Tail(a), Tail(b), 0)

\* a + 1 modulo 2^64
RECURSIVE LimbsInc(_)
LimbsInc(a) ==
    IF a = << >> THEN << >>
    ELSE IF a[1] + 1 < LimbBase THEN <<a[1] + 1>> \o Tail(a)
    ELSE <<0>> \o LimbsInc(Tail(a))

\* u64::min and u64::abs_diff
u64_min(x, y) == IF LimbsLess(x, y) THEN x ELSE y
abs_diff(x, y) == IF LimbsLess(x, y) THEN LimbsSub(y, x, 0) ELSE LimbsSub(x, y, 0)

\* `+ 1` on a u64 overflows on u64::MAX: a panic in a build with overflow
\* checks, 0 in a build without
add_one_overflows(v) == v = U64_MAX
add_one(v) == LimbsInc(v)

\* lines 175-176 panic on this record in a build with overflow checks
sprite_overflows(row) ==
    \/ add_one_overflows(abs_diff(row.x, row.x2))
    \/ add_one_overflows(abs_diff(row.y, row.y2))

\* the Sprite document of one parsed record
sprite_doc(base, row) ==
    LET filename == to_lowercase(row.filename)
        dn == SplitDirName(filename, S_art_sprites)
    IN  [EmptyDoc EXCEPT !.version = base.version, !.typ = "sprite",
                         !.path = filename, !.name = dn[2], !.parent = dn[1],
                         !.sprite_sheet = Some(to_lowercase(row.source)),
                         !.sprite_txt = Some(base.path),
                         !.sprite_x = Some(u64_min(row.x, row.x2)),
                         !.sprite_y = Some(u64_min(row.y, row.y2)),
                         !.sprite_w = Some(add_one(abs_diff(row.x, row.x2))),
                         !.sprite_h = Some(add_one(abs_diff(row.y, row.y2)))]

\* the record loop of add_sprite: an unparsable record is logged and skipped;
\* checks says whether the build has overflow checks
RECURSIVE sprite_records(_, _, _, _, _)
sprite_records(base, rows, i, acc, checks) ==
    IF i > Len(rows) THEN acc
    ELSE IF ~rows[i].parsed THEN sprite_records(base, rows, i + 1, acc, checks)
    ELSE IF checks /\ sprite_overflows(rows[i]) THEN [acc EXCEPT !.status = "panic"]
    ELSE sprite_records(base, rows, i + 1,
            [acc EXCEPT !.docs = Append(@, sprite_doc(base, rows[i])),
                        !.dirs = add_dirs(to_lowercase(rows[i].filename), @)],
            checks)

add_sprite(base, c, acc) ==
    LET g == get_data(base, c)
    IN  IF g.status # "ok" THEN [acc EXCEPT !.status = "err"]
        ELSE sprite_records(base, g.rows, 1, acc, c.overflow_checks)

\* for sprite in sprites { add_sprite(..)? }
RECURSIVE add_sprites(_, _, _)
add_sprites(c, i, acc) ==
    IF i > Len(acc.sprites) \/ acc.status # "ok" THEN acc
    ELSE add_sprites(c, i + 1, add_sprite(acc.sprites[i], c, acc))

\* the Directory document of one member of dirs
dir_doc(version, filename) ==
    LET dn == SplitDirName(filename, << >>)
    IN  [EmptyDoc EXCEPT !.version = version, !.path = filename,
                         !.name = dn[2], !.parent = dn[1], !.typ = "dir"]

\* for filename in dirs { writer.add_document(..) }: the set is walked in an
\* order of its own; queries collect in any order (see perform_query)
dir_docs(version, dirs) ==
    LET s == SetToSeq(dirs) IN [i \in 1..Len(s) |-> dir_doc(version, s[i])]

\* index(version, writer, fields): what it returns and the documents the
\* writer has received when it returns. c.fetch stands for lines 13-44: the
\* URL, the download, both decompressions and the tables.
index(version, c) ==
    IF c.fetch # "ok" THEN [status |-> "err", docs |-> << >>]
    ELSE LET a0 == [status |-> "ok", docs |-> << >>, dirs |-> {}, sprites |-> << >>]
             a1 == emit_paths(version, c, 1, a0)
             a2 == add_sprites(c, 1, a1)
         IN  IF a1.status # "ok" THEN [status |-> a1.status, docs |-> a1.docs]
             ELSE IF a2.status # "ok" THEN [status |-> a2.status, docs |-> a2.docs]
             ELSE [status |-> "ok", docs |-> a2.docs \o dir_docs(version, a2.dirs)]

-----------------------------------------------------------------------------
(* The path table (index/ggpk.rs, decode_paths) *)

\* u32::from_le_bytes
u32_from_le_bytes(b) == b[1] + 256 * b[2] + 65536 * b[3] + 16777216 * b[4]

\* Cursor::read_exact of four bytes at pos: UnexpectedEof when fewer remain
read_u32(data, pos) ==
    IF pos + 4 > Len(data) THEN [status |-> "err", value |-> 0, pos |-> pos]
    ELSE [status |-> "ok",
          value  |-> u32_from_le_bytes(SubSeq(data, pos + 1, pos + 4)),
          pos    |-> pos + 4]

\* BufRead::read_until(0, fragment): the bytes from pos up to and including
\* the first NUL, or up to the end of the buffer when there is none; it is
\* Ok in both cases
read_until_nul(data, pos) ==
    LET nuls == {i \in (pos + 1)..Len(data) : data[i] = 0}
        stop == IF nuls = {} THEN Len(data)
                ELSE CHOOSE i \in nuls : \A j \in nuls : i <= j
    IN  [fragment |-> SubSeq(data, pos + 1, stop), pos |-> stop]

\* std::str::from_utf8 is Ok, for the bytes the tables of the model hold:
\* ASCII, and 0xFF, which no UTF-8 sequence contains
Utf8Valid(bytes) == \A i \in 1..Len(bytes) : bytes[i] < 128

\* the character of an ASCII byte (the bytes the tables of the model hold)
Utf8Chr(b) ==
    CASE b = 0 -> "0" [] b = 46 -> "." [] b = 47 -> "/" [] b = 97 -> "a"
      [] b = 98 -> "b" [] OTHER -> "?"

\* str::trim_end_matches('\0')
RECURSIVE trim_end_nul(_)
trim_end_nul(bytes) ==
    IF bytes # << >> /\ bytes[Len(bytes)] = 0
    THEN trim_end_nul(SubSeq(bytes, 1, Len(bytes) - 1))
    ELSE bytes

\* from_utf8(fragment)?.trim_end_matches('\0'), as a string
fragment_path(fragment) ==
    LET t == trim_end_nul(fragment) IN [i \in 1..Len(t) |-> Utf8Chr(t[i])]

\* the locals of decode_paths before the loop; calls is the sequence of
\* strings the callback has been invoked on
DecodeStart ==
    [pc |-> "loop", pos |-> 0, bases |-> << >>, base_phase |-> FALSE,
     calls |-> << >>]
NoDecode == [DecodeStart EXCEPT !.pc = "none"]

\* as decode_step, with the base list kept when base-building is entered
decode_step_keeps_bases(data, st) ==
    IF st.pos >= Len(data) THEN [st EXCEPT !.pc = "ok"]
    ELSE LET w == read_u32(data, st.pos)
         IN  IF w.status # "ok" THEN [st EXCEPT !.pc = "err"]
             ELSE IF w.value = 0
             THEN [st EXCEPT !.pos = w.pos, !.base_phase = ~st.base_phase]
             ELSE LET f == read_until_nul(data, w.pos)
                  IN  IF ~Utf8Valid(f.fragment) THEN [st EXCEPT !.pc = "err", !.pos = f.pos]
                      ELSE LET path == fragment_path(f.fragment)
                               full == IF w.value <= Len(st.bases)
                                       THEN st.bases[w.value] \o path
                                       ELSE path
                           IN  IF st.base_phase
                               THEN [st EXCEPT !.pos = f.pos,
                                               !.bases = Append(st.bases, full)]
                               ELSE [st EXCEPT !.pos = f.pos,
                                               !.calls = Append(st.calls, full)]

\* one evaluation of the loop condition of decode_paths and, when it holds,
\* of the loop body (the callback of the model never fails)
decode_step(data, st) ==
    IF st.pos >= Len(data) THEN [st EXCEPT !.pc = "ok"]
    ELSE LET w == read_u32(data, st.pos)
         IN  IF w.status # "ok" THEN [st EXCEPT !.pc = "err"]
             ELSE IF w.value = 0
             THEN [st EXCEPT !.pos = w.pos,
                             !.base_phase = ~st.base_phase,
                             !.bases = IF ~st.base_phase THEN << >> ELSE st.bases]
             ELSE LET f == read_until_nul(data, w.pos)
                  IN  IF ~Utf8Valid(f.fragment) THEN [st EXCEPT !.pc = "err", !.pos = f.pos]
                      ELSE LET path == fragment_path(f.fragment)
                               full == IF w.value <= Len(st.bases)
                                       THEN st.bases[w.value] \o path
                                       ELSE path
                           IN  IF st.base_phase
                               THEN [st EXCEPT !.pos = f.pos,
                                               !.bases = Append(st.bases, full)]
                               ELSE [st EXCEPT !.pos = f.pos,
                                               !.calls = Append(st.calls, full)]

-----------------------------------------------------------------------------
(* Catalogs: what a version URL serves *)

P_x   == <<"x">>
P_ax  == <<"a", "/", "x">>
P_abx == <<"a", "/", "b", "/", "x">>
P_aby == <<"a", "/", "b", "/", "y">>
P_art == <<"a", "r", "t", "/", "s", ".", "t", "x", "t">>
P_dbr == <<"d", ".", "b", "/", "r">>

PathPool == {P_x, P_ax, P_abx, P_aby, P_art, P_dbr}

\* records of a sprite .txt: (filename, source, x, y, x2, y2), or unparsable
Row(f, s, x, y, x2, y2) ==
    [parsed |-> TRUE, filename |-> f, source |-> s, x |-> x, y |-> y, x2 |-> x2, y2 |-> y2]
BadRow == [parsed |-> FALSE]
RowPool ==
    { << >>,
      <<Row(<<"S">>, <<"X">>, U64(0), U64(0), U64(1), U64(1))>>,
      <<BadRow, Row(<<"a", "r", "t", "/", "x", "/", "s">>, <<"x">>,
                    U64(2), U64(1), U64(0), U64(3))>>,
      <<Row(<<"w">>, <<"x">>, U64(0), U64(70000), U64_MAX, U64(5))>> }

\* what can go wrong around a catalog, one at a time
EnvPool == {"ok", "fetch_err", "no_frontend", "sprite_fetch_err", "bad_bundle_index"}

\* the catalog with emitted paths ps, file-table entries for the paths of
\* located, sprite records rows, in environment env
Catalog(ps, located, rows, env) ==
    [fetch        |-> IF env = "fetch_err" THEN "err" ELSE "ok",
     bundle_names |-> << <<"b">> >>,
     bundle_sizes |-> <<9>>,
     files        |-> [p \in located |->
                          <<IF env = "bad_bundle_index" THEN 1 ELSE 0, Len(p), 1>>],
     paths        |-> ps,
     frontend     |-> env # "no_frontend",
     sprite_fetch |-> IF env = "sprite_fetch_err" THEN "err" ELSE "ok",
     sprite_rows  |-> rows,
     overflow_checks |-> FALSE,
     env          |-> env]

SeqsUpTo(S, n) == UNION {[1..k -> S] : k \in 0..n}

\* the sprite records that can matter to a catalog: none when no sprite .txt
\* is located, since no records are then fetched
RowsFor(located) == IF P_art \in located THEN RowPool ELSE { << >> }

\* the build profile is not part of the sources: with and without overflow
\* checks, where a record can tell them apart
ChecksFor(rows) ==
    IF \E i \in 1..Len(rows) : rows[i].parsed /\ sprite_overflows(rows[i])
    THEN BOOLEAN ELSE {FALSE}

IngestCatalogs(n) ==
    UNION { UNION { UNION { { [Catalog(ps, located, rows, env)
                                  EXCEPT !.overflow_checks = checks] :
                                checks \in ChecksFor(rows) }
                            : rows \in RowsFor(located) }
                    : located \in SUBSET Range(ps), env \in EnvPool }
            : ps \in SeqsUpTo(PathPool, n) }

NoCatalog == Catalog(<< >>, {}, << >>, "ok")

\* records of a path table: a phase toggle, or a command word and a fragment
Toggle == [cmd |-> 0, fragment |-> << >>]
Frag(cmd, bytes) == [cmd |-> cmd, fragment |-> bytes]
RecordPool ==
    { Toggle,
      Frag(1, <<97>>),
      Frag(1, <<98, 47>>),
      Frag(2, <<97>>),
      Frag(1, <<255>>) }

\* the bytes of a record: the little-endian command word, then for a
\* non-zero command the fragment and its NUL
RecordBytes(r) ==
    <<r.cmd % 256, (r.cmd \div 256) % 256, 0, 0>>
        \o (IF r.cmd = 0 THEN << >> ELSE r.fragment \o <<0>>)

RECURSIVE TableBytes(_)
TableBytes(records) ==
    IF records = << >> THEN << >>
    ELSE RecordBytes(Head(records)) \o TableBytes(Tail(records))

\* the table of the records, with its last cut bytes missing
Table(records, cut) ==
    LET bytes == TableBytes(records)
    IN  [records |-> records, cut |-> cut,
         bytes |-> SubSeq(bytes, 1, Len(bytes) - cut)]

\* a whole table, one that ends before the NUL of its last fragment, one
\* that ends inside its last fragment or command word
Cuts == {0, 1, 2}

Tables(n) ==
    { Table(records, cut) :
        records \in SeqsUpTo(RecordPool, n),
        cut \in Cuts }

NoTable == Table(<< >>, 0)
NoIngest == [status |-> "none", docs |-> << >>]
IngestVersion == <<"a">>

-----------------------------------------------------------------------------
(* Initial values *)

NoRequest == [command |-> "ready", path |-> << >>, extension |-> << >>,
              filter |-> "none", limit |-> None, adapter |-> None]
NoResponse == [status |-> 0, files |-> << >>]

WatcherInit ==
    /\ urls = << >>
    /\ committed = << >>
    /\ readerView = << >>
    /\ commits = { << >> }
    /\ w_pc = "sleep"
    /\ updated = << >>
    /\ removed = << >>
    /\ added = << >>
    /\ staged = << >>
    /\ w_result = "none"
    /\ ticks = 0
    /\ tick0 = [urls |-> << >>, committed |-> << >>]
    /\ probeFailed = FALSE
    /\ shortRecord = FALSE

HandlerInit ==
    /\ h_pc = "idle"
    /\ h_req = NoRequest
    /\ h_storages = << >>
    /\ h_adapter = << >>
    /\ h_searcher = << >>
    /\ h_found = << >>
    /\ h_resp = NoResponse
    /\ v_resp = [poe |-> 0, seen |-> << >>, body |-> << >>]

-----------------------------------------------------------------------------
(* The announcement probe (index/updater.rs, try_check_urls and check_urls) *)

\* read < 34 is an error; the first 34 bytes are discarded
PreambleLen == 34

\* u16::from_le_bytes
from_le_bytes(lo, hi) == lo + 256 * hi

IsHighSurrogate(u) == 55296 <= u /\ u <= 56319
IsLowSurrogate(u) == 56320 <= u /\ u <= 57343

\* String::from_utf16 is Ok: no surrogate stands alone
ValidUtf16(raw) ==
    \A i \in 1..Len(raw) :
        /\ IsHighSurrogate(raw[i]) => (i < Len(raw) /\ IsLowSurrogate(raw[i + 1]))
        /\ IsLowSurrogate(raw[i]) => (i > 1 /\ IsHighSurrogate(raw[i - 1]))

\* the character of a code unit (the units the responses of the model use)
Chr(u) ==
    CASE u = 47 -> "/" [] u = 97 -> "a" [] u = 98 -> "b" [] u = 99 -> "c"
      [] OTHER -> "?"

from_utf16(raw) == [i \in 1..Len(raw) |-> Chr(raw[i])]

\* data.chunks(2).take(len): the chunks that are taken, as index pairs
TakenChunks(data, len) == min(len, (Len(data) + 1) \div 2)

\* the while loop of try_check_urls on the bytes after the preamble.
\* chunk.try_into().unwrap() panics on a one-byte chunk and &data[2*len..]
\* panics past the end; a panic unwinds the watcher task.
RECURSIVE parse_records(_, _)
parse_records(data, out) ==
    IF data = << >> THEN [status |-> "ok", out |-> out]
    ELSE LET len == Head(data)
             rest == Tail(data)
         IN  IF len = 0 THEN parse_records(rest, out)
             ELSE IF len > Len(rest) THEN [status |-> "err", out |-> out]
             ELSE LET n == TakenChunks(rest, len)
                  IN  IF 2 * n > Len(rest) THEN [status |-> "panic", out |-> out]
                      ELSE LET raw == [i \in 1..n |->
                                          from_le_bytes(rest[2 * i - 1], rest[2 * i])]
                           IN  IF ~ValidUtf16(raw) THEN [status |-> "err", out |-> out]
                               ELSE LET url == from_utf16(raw)
                                        out2 == IF url \in Range(out) THEN out
                                                ELSE Append(out, url)
                                    IN  IF 2 * len > Len(rest)
                                        THEN [status |-> "panic", out |-> out2]
                                        ELSE parse_records(
                                                 SubSeq(rest, 2 * len + 1, Len(rest)), out2)

\* try_check_urls: connect, send, one read, then the records
try_check_urls(resp, out) ==
    IF resp.io # "ok" THEN [status |-> "err", out |-> out]
    ELSE IF resp.read < PreambleLen THEN [status |-> "err", out |-> out]
    ELSE parse_records(resp.body, out)

\* check_urls: false on a timeout and on an error
check_urls(resp, out) ==
    IF resp.io = "timeout" THEN [status |-> "err", out |-> out]
    ELSE try_check_urls(resp, out)

\* a response whose bytes after the preamble are body
Response(body) == [io |-> "ok", read |-> PreambleLen + Len(body), body |-> body]

Responses ==
    { [io |-> "timeout", read |-> 0, body |-> << >>],
      [io |-> "err", read |-> 0, body |-> << >>],
      [io |-> "ok", read |-> 10, body |-> << >>],
      Response(<< >>),
      Response(<<1, 97, 0>>),
      Response(<<1, 98, 0>>),
      Response(<<1, 99, 0>>),
      Response(<<1, 97, 0, 1, 98, 0>>),
      Response(<<0, 1, 97, 0>>),
      Response(<<5, 97, 0>>),
      Response(<<2, 97, 0>>),
      Response(<<2, 97, 0, 98>>),
      Response(<<1, 0, 216>>) }

-----------------------------------------------------------------------------
(* The index (tantivy, as the repository uses it) *)

\* Fields::version_term and Term::from_field_text
Term(field, text) == [field |-> field, text |-> text]
version_term(value) == Term("version", value)

\* a document matches a term of an exact-string field when the field holds
\* exactly that text
TermMatches(term, doc) ==
    IF term.field = "extension" THEN doc.extension = Some(term.text)
    ELSE doc[term.field] = term.text

\* as delete_term, for a version field that is tokenized: no document holds
\* the whole URL as one term
delete_term_tokenized(docs, term) == docs

\* writer.delete_term: every document added before the call and matching
delete_term(docs, term) == SelectSeq(docs, LAMBDA d : ~TermMatches(term, d))

\* writer.commit(): the batch applied in the order it was issued
RECURSIVE apply_batch(_, _)
apply_batch(docs, ops) ==
    IF ops = << >> THEN docs
    ELSE LET op == Head(ops)
         IN  apply_batch(IF op.kind = "delete" THEN delete_term(docs, op.term)
                         ELSE docs \o op.docs,
                         Tail(ops))

HasVersion(docs, v) == \E i \in 1..Len(docs) : docs[i].version = v
VersionsOf(docs) == {docs[i].version : i \in 1..Len(docs)}
DocsOf(docs, v) == SelectSeq(docs, LAMBDA d : d.version = v)

-----------------------------------------------------------------------------
(* The watcher (index/updater.rs, watch / reindex / try_reindex) *)

\* what a version URL may serve when the watcher ingests it: its catalog, a
\* catalog with an orphan sprite sheet, no catalog at all, or a file table
\* that points outside the bundle list
GoodCatalog == Catalog(<<P_ax, P_x>>, {P_ax, P_x}, << >>, "ok")
OtherCatalog == Catalog(<<P_x, P_aby>>, {P_x, P_aby}, << >>, "ok")
CatalogOf(v) == IF v = <<"b">> THEN OtherCatalog ELSE GoodCatalog
ServedBy(v) ==
    { CatalogOf(v),
      Catalog(<<P_art>>, {}, << >>, "ok"),
      Catalog(<< >>, {}, << >>, "fetch_err"),
      Catalog(<<P_x>>, {P_x}, << >>, "bad_bundle_index") }
ServedPool == UNION {ServedBy(v) : v \in {<<"a">>, <<"b">>, <<"c">>}}

NoBatch == << >>

NoVersionResponse == [poe |-> 0, seen |-> << >>, body |-> << >>]

\* A step of the watcher, the worker or the reader leaves a request in flight
\* alone. A response is in the state its last step produced and has left with
\* the next step: v_resp and, once h_pc is "done", the /files request.
NoRequestStep ==
    /\ v_resp' = NoVersionResponse
    /\ IF h_pc = "done"
       THEN /\ h_pc' = "idle"
            /\ h_req' = NoRequest
            /\ h_storages' = << >>
            /\ h_adapter' = << >>
            /\ h_searcher' = << >>
            /\ h_found' = << >>
            /\ h_resp' = NoResponse
       ELSE UNCHANGED handlerVars
    /\ UNCHANGED ingestVars

\* interval.tick(): a new iteration with a fresh candidate list
Tick(bound) ==
    /\ w_pc = "sleep"
    /\ ticks < bound
    /\ w_pc' = "probe1"
    /\ ticks' = ticks + 1
    /\ updated' = << >>
    /\ removed' = << >>
    /\ added' = << >>
    /\ w_result' = "none"
    /\ probeFailed' = FALSE
    /\ shortRecord' = FALSE
    /\ tick0' = [urls |-> urls, committed |-> committed]
    /\ UNCHANGED <<urls, committed, readerView, commits, staged>>
    /\ NoRequestStep

\* the records of an announcement: a length byte L, then L UTF-16 code units
\* of two bytes each; a zero length byte stands alone
RECURSIVE ShortRecordIn(_)
ShortRecordIn(data) ==
    IF data = << >> THEN FALSE
    ELSE IF Head(data) = 0 THEN ShortRecordIn(Tail(data))
    ELSE IF 2 * Head(data) > Len(data) - 1 THEN TRUE
    ELSE ShortRecordIn(SubSeq(data, 2 * Head(data) + 2, Len(data)))

\* a response of at least 34 bytes with such a record
HasShortRecord(resp) ==
    /\ resp.io = "ok"
    /\ resp.read >= PreambleLen
    /\ ShortRecordIn(resp.body)

\* as AfterProbe, with the result of check_urls ignored
AfterProbe_ignored(status, next) ==
    CASE status = "ok" -> next
      [] status = "err" -> next
      [] OTHER -> "dead"

\* where watch() goes after a probe: on, out of the tick, or down with a panic
AfterProbe(status, next) ==
    CASE status = "ok" -> next
      [] status = "err" -> "sleep"
      [] OTHER -> "dead"

\* check_urls(addr, &mut updated) for one endpoint, answered by a response
\* of pool; && short-circuits
Probe(at, next, pool) ==
    /\ w_pc = at
    /\ \E resp \in pool :
          LET r == check_urls(resp, updated)
          IN  /\ w_pc' = AfterProbe(r.status, next)
              /\ updated' = r.out
              /\ probeFailed' = (r.status = "err")
              /\ shortRecord' = (shortRecord \/ HasShortRecord(resp))
    /\ UNCHANGED <<urls, committed, readerView, commits, removed, added, staged,
                   w_result, ticks, tick0>>
    /\ NoRequestStep

Probe1(pool) == Probe("probe1", "probe2", pool)
Probe2(pool) == Probe("probe2", "diff", pool)

\* as Diff, with every candidate taken as added
Diff_adds_every_candidate ==
    /\ w_pc = "diff"
    /\ LET prev == urls
           rem == SelectSeq(prev, LAMBDA u : u \notin Range(updated))
           add == updated
       IN  /\ removed' = rem
           /\ added' = add
           /\ w_pc' = IF rem # << >> \/ add # << >> THEN "reindex" ELSE "sleep"
    /\ UNCHANGED <<urls, committed, readerView, commits, updated, staged,
                   w_result, ticks, tick0, probeFailed, shortRecord>>
    /\ NoRequestStep

\* lines 17-28: clone the live list and diff it against the candidates
Diff ==
    /\ w_pc = "diff"
    /\ LET prev == urls
           rem == SelectSeq(prev, LAMBDA u : u \notin Range(updated))
           add == SelectSeq(updated, LAMBDA u : u \notin Range(prev))
       IN  /\ removed' = rem
           /\ added' = add
           /\ w_pc' = IF rem # << >> \/ add # << >> THEN "reindex" ELSE "sleep"
    /\ UNCHANGED <<urls, committed, readerView, commits, updated, staged,
                   w_result, ticks, tick0, probeFailed,
                   shortRecord>>
    /\ NoRequestStep

\* for r in &removed { writer.delete_term(fields.version_term(r)) }
delete_ops(rem) ==
    [i \in 1..Len(rem) |-> [kind |-> "delete", term |-> version_term(rem[i])]]

\* for r in &added { index(r, &writer, fields)? }: served[r] is what r serves
RECURSIVE ingest_added(_, _, _, _)
ingest_added(add, served, i, acc) ==
    IF i > Len(add) \/ acc.status # "ok" THEN acc
    ELSE LET r == index(add[i], served[add[i]])
         IN  ingest_added(add, served, i + 1,
                 [status |-> r.status,
                  ops |-> Append(acc.ops, [kind |-> "add", docs |-> r.docs])])

\* try_reindex up to the commit, on the blocking worker: open the writer,
\* queue the deletes, ingest the added versions. An error or a panic drops
\* the writer and with it the uncommitted batch.
Stage ==
    /\ w_pc = "reindex"
    /\ \E writer \in {"ok", "err"} :
       \E served \in {f \in [Range(added) -> ServedPool] :
                          \A v \in Range(added) : f[v] \in ServedBy(v)} :
          LET r == IF writer = "err" THEN [status |-> "err", ops |-> << >>]
                   ELSE ingest_added(added, served, 1,
                            [status |-> "ok", ops |-> delete_ops(removed)])
          IN  IF r.status = "ok"
              THEN /\ staged' = r.ops
                   /\ w_pc' = "commit"
                   /\ UNCHANGED w_result
              ELSE /\ staged' = NoBatch
                   /\ w_pc' = "joined"
                   /\ w_result' = r.status
    /\ UNCHANGED <<urls, committed, readerView, commits, updated, removed, added,
                   ticks, tick0, probeFailed,
                   shortRecord>>
    /\ NoRequestStep

\* writer.commit()?: the whole batch becomes the committed index, or none of
\* it. The history of commits is kept where track says so.
Commit(track) ==
    /\ w_pc = "commit"
    /\ \/ /\ committed' = apply_batch(committed, staged)
          /\ commits' = IF track THEN commits \cup {committed'} ELSE commits
          /\ w_result' = "ok"
       \/ /\ w_result' = "err"
          /\ UNCHANGED <<committed, commits>>
    /\ staged' = NoBatch
    /\ w_pc' = "joined"
    /\ UNCHANGED <<urls, readerView, updated, removed, added, ticks, tick0,
                   probeFailed,
                   shortRecord>>
    /\ NoRequestStep

\* as reindex, with Ok(_) => true: an error of try_reindex counts as success
reindex_any_ok(result) == result \in {"ok", "err"}

\* reindex(): true only for Ok(Ok(()))
reindex(result) == result = "ok"

\* lines 29-32: the join of the worker, then the live list is replaced
Publish ==
    /\ w_pc = "joined"
    /\ urls' = IF reindex(w_result) THEN updated ELSE urls
    /\ w_pc' = "sleep"
    /\ UNCHANGED <<committed, readerView, commits, updated, removed, added,
                   staged, w_result, ticks, tick0, probeFailed,
                   shortRecord>>
    /\ NoRequestStep

\* the IndexReader reloads to the last commit some time after it
ReaderReload ==
    /\ readerView # committed
    /\ readerView' = committed
    /\ UNCHANGED <<urls, committed, commits, w_pc, updated, removed, added,
                   staged, w_result, ticks, tick0, probeFailed,
                   shortRecord>>
    /\ NoRequestStep

-----------------------------------------------------------------------------
(* GET /files (routes/browse.rs) *)

\* [&dirname, &basename].iter().collect::<PathBuf>(): push adds a separator
\* unless the path is empty or ends with one
PathJoin(dirname, basename) ==
    IF dirname = << >> THEN basename
    ELSE IF dirname[Len(dirname)] = "/" THEN dirname \o basename
    ELSE dirname \o <<"/">> \o basename

\* derive(Ord) on NodeType: Dir < File
TypeRank(t) == IF t = "dir" THEN 0 ELSE 1

\* process_doc: the Node of a document; whatever is not a directory is a file
process_doc(storage, doc) ==
    [path      |-> PathJoin(doc.parent, doc.name),
     dirname   |-> doc.parent,
     basename  |-> doc.name,
     storage   |-> storage,
     node_type |-> IF doc.typ = "dir" THEN "dir" ELSE "file",
     file_size |-> doc.size,
     bundle_offset |-> doc.offset]

\* the comparator of files.sort_by: type, then path, then basename
NodeLess(l, r) ==
    IF TypeRank(l.node_type) # TypeRank(r.node_type)
    THEN TypeRank(l.node_type) < TypeRank(r.node_type)
    ELSE IF l.path # r.path THEN StrLess(l.path, r.path)
    ELSE StrLess(l.basename, r.basename)

\* files.sort_by(comparator): a stable sort, here by insertion from the left
RECURSIVE InsertSorted(_, _)
InsertSorted(x, sorted) ==
    IF sorted = << >> THEN <<x>>
    ELSE IF NodeLess(x, sorted[Len(sorted)])
         THEN Append(InsertSorted(x, SubSeq(sorted, 1, Len(sorted) - 1)),
                     sorted[Len(sorted)])
         ELSE Append(sorted, x)

RECURSIVE sort_by(_)
sort_by(s) ==
    IF s = << >> THEN << >>
    ELSE InsertSorted(s[Len(s)], sort_by(SubSeq(s, 1, Len(s) - 1)))

\* path.trim_start_matches('/')
RECURSIVE trim_start_slashes(_)
trim_start_slashes(path) ==
    IF path # << >> /\ Head(path) = "/" THEN trim_start_slashes(Tail(path))
    ELSE path

\* limit == Some(0) becomes None; a search without a limit gets Some(50)
DefaultSearchLimit == 50
effective_limit(req) ==
    LET l == IF req.limit = Some(0) THEN None ELSE req.limit
    IN  IF req.command = "search" /\ l = None THEN Some(DefaultSearchLimit) ELSE l

\* lines 157-228: the Must clauses of the BooleanQuery
build_query(req, adapter) ==
    LET path == trim_start_slashes(req.path)
        dn == SplitDirName(path, << >>)
    IN  <<[kind |-> "term", term |-> version_term(adapter)]>>
        \o (IF req.extension # << >>
            THEN <<[kind |-> "term", term |-> Term("extension", req.extension)]>>
            ELSE << >>)
        \o (CASE req.command = "details" ->
                   <<[kind |-> "term", term |-> Term("parent", dn[1])],
                     [kind |-> "term", term |-> Term("name", dn[2])]>>
              [] req.command = "search" ->
                   (IF path # << >>
                    THEN <<[kind |-> "prefix", term |-> Term("parent", path)]>>
                    ELSE << >>)
                   \o (IF req.filter # "none" THEN <<[kind |-> "parsed"]>> ELSE << >>)
              [] OTHER ->
                   <<[kind |-> "term", term |-> Term("parent", path)]>>)
        \o (IF req.command = "subfolders"
            THEN <<[kind |-> "term", term |-> Term("typ", "dir")]>>
            ELSE << >>)

\* a document satisfies a clause; parsed is the set of addresses the query
\* parsed from `filter` matches in these segments
ClauseMatches(clause, docs, a, parsed) ==
    CASE clause.kind = "term" -> TermMatches(clause.term, docs[a])
      [] clause.kind = "prefix" ->
            starts_with(docs[a][clause.term.field], clause.term.text)
      [] OTHER -> a \in parsed

\* the addresses of the documents that satisfy every clause
Matching(query, docs, parsed) ==
    {a \in 1..Len(docs) :
        \A i \in 1..Len(query) : ClauseMatches(query[i], docs, a, parsed)}

\* the sequences a collector may return for the matching set m: TopDocs
\* keeps min(limit, |m|) of them, CollectAll all of them; the order is that
\* of scores and segments
Collections(m, limit) ==
    LET n == IF limit = None THEN Cardinality(m) ELSE min(limit[1], Cardinality(m))
    IN  {f \in [1..n -> m] : \A i, j \in 1..n : i # j => f[i] # f[j]}

\* as searcher_doc, through a Searcher taken anew from the reader
searcher_doc_reloaded(searcher, addr) ==
    IF addr \in DOMAIN readerView THEN readerView[addr] ELSE searcher[addr]

\* searcher.doc(addr): the stored document at an address of the Searcher's
\* segments
searcher_doc(searcher, addr) == searcher[addr]

\* as render_files, without the sort
render_files_unsorted(searcher, found, adapter, limit) ==
    [i \in 1..Len(found) |-> process_doc(adapter, searcher_doc(searcher, found[i]))]

\* lines 232-243: fetch and project what was found, sort when unlimited
render_files(searcher, found, adapter, limit) ==
    LET nodes == [i \in 1..Len(found) |->
                     process_doc(adapter, searcher_doc(searcher, found[i]))]
    IN  IF limit = None THEN sort_by(nodes) ELSE nodes

\* as select_adapter, with the supplied adapter taken unchecked
select_adapter_unchecked(adapter, storages) ==
    IF adapter # None THEN adapter[1] ELSE storages[1]

\* lines 128-131: the supplied adapter if it is live, else the first storage
select_adapter(adapter, storages) ==
    IF adapter # None /\ adapter[1] \in Range(storages) THEN adapter[1]
    ELSE storages[1]

U_a == <<"a">>
U_b == <<"b">>
U_c == <<"c">>

Req(command, path, extension, filter, limit) ==
    [command |-> command, path |-> path, extension |-> extension,
     filter |-> filter, limit |-> limit]

\* the query strings explored against one index, each with every adapter of
\* Adapters
Queries ==
    { Req("ready", << >>, << >>, "none", None),
      Req("index", << >>, << >>, "none", None),
      Req("index", <<"/">>, << >>, "none", Some(0)),
      Req("index", << >>, << >>, "none", Some(1)),
      Req("subfolders", << >>, << >>, "none", None),
      Req("details", P_ax, << >>, "none", None),
      Req("search", << >>, << >>, "none", None),
      Req("search", <<"a">>, << >>, "ok", Some(2)),
      Req("search", << >>, << >>, "bad", None) }

\* the query strings explored while the watcher re-indexes
ServeQueries ==
    { Req("ready", << >>, << >>, "none", None),
      Req("index", << >>, << >>, "none", None),
      Req("subfolders", << >>, << >>, "none", Some(1)),
      Req("details", P_ax, << >>, "none", None),
      Req("search", << >>, << >>, "none", Some(1)) }

Adapters == {None, Some(U_b), Some(<<"?">>)}

\* lines 123-144: clone the live list, 503 when it is empty, select the
\* adapter, answer `ready`
Begin(queries) ==
    /\ h_pc \in {"idle", "done"}
    /\ \E q \in queries, adapter \in Adapters :
          LET storages == urls
          IN  /\ h_req' = q @@ [adapter |-> adapter]
              /\ h_storages' = storages
              /\ h_searcher' = << >>
              /\ h_found' = << >>
              /\ IF storages = << >>
                 THEN /\ h_adapter' = << >>
                      /\ h_resp' = [status |-> 503, files |-> << >>]
                      /\ h_pc' = "done"
                 ELSE /\ h_adapter' = select_adapter(adapter, storages)
                      /\ IF q.command = "ready"
                         THEN /\ h_resp' = [status |-> 200, files |-> << >>]
                              /\ h_pc' = "done"
                         ELSE IF q.command = "search" /\ q.filter = "bad"
                         THEN /\ h_resp' = [status |-> 404, files |-> << >>]
                              /\ h_pc' = "done"
                         ELSE /\ h_resp' = NoResponse
                              /\ h_pc' = "searcher"
    /\ UNCHANGED <<watcherVars, v_resp, ingestVars>>

\* reader.searcher(): the segments the reader serves at this moment
TakeSearcher ==
    /\ h_pc = "searcher"
    /\ h_searcher' = readerView
    /\ h_pc' = "search"
    /\ UNCHANGED <<h_req, h_storages, h_adapter, h_found, h_resp>>
    /\ UNCHANGED <<watcherVars, v_resp, ingestVars>>

\* searcher.search(&query, collector)
Search ==
    /\ h_pc = "search"
    /\ \E parsed \in (IF h_req.filter = "none" THEN {{}}
                       ELSE SUBSET (1..Len(h_searcher))) :
          /\ h_found' \in Collections(
                 Matching(build_query(h_req, h_adapter), h_searcher, parsed),
                 effective_limit(h_req))
    /\ h_pc' = "fetch"
    /\ UNCHANGED <<h_req, h_storages, h_adapter, h_searcher, h_resp>>
    /\ UNCHANGED <<watcherVars, v_resp, ingestVars>>

\* the documents fetched and projected, the sort, the response
Fetch ==
    /\ h_pc = "fetch"
    /\ h_resp' = [status |-> 200,
                  files |-> render_files(h_searcher, h_found, h_adapter,
                                         effective_limit(h_req))]
    /\ h_pc' = "done"
    /\ UNCHANGED <<h_req, h_storages, h_adapter, h_searcher, h_found>>
    /\ UNCHANGED <<watcherVars, v_resp, ingestVars>>

-----------------------------------------------------------------------------
(* GET /version (routes/version.rs) *)

\* as version_handler, with the pattern [poe1, poe2, ..]
version_handler_at_least_two(list, poe) ==
    IF Len(list) >= 2 THEN (IF poe = 1 THEN list[1] ELSE list[2]) ELSE << >>

\* if let [poe1, poe2] = urls { poe1 or poe2 } else { String::default() }
version_handler(list, poe) ==
    IF Len(list) = 2 THEN (IF poe = 1 THEN list[1] ELSE list[2]) ELSE << >>

\* the handler as a whole: one read of the live list, then the answer
Version ==
    /\ \E poe \in 0..3 :
          v_resp' = [poe |-> poe, seen |-> urls, body |-> version_handler(urls, poe)]
    /\ UNCHANGED <<watcherVars, handlerVars, ingestVars>>

-----------------------------------------------------------------------------
(* The watcher, its index and GET /version *)

Init ==
    /\ WatcherInit
    /\ HandlerInit
    /\ cat = NoCatalog
    /\ ing = NoIngest
    /\ table = NoTable
    /\ dec = NoDecode

Next ==
    \/ Tick(MaxTicks)
    \/ Probe1(Responses)
    \/ Probe2(Responses)
    \/ Diff
    \/ Stage
    \/ Commit(FALSE)
    \/ Publish
    \/ Version

Spec == Init /\ [][Next]_vars

ReindexFailed == w_result \in {"err", "panic"}

\* C1 (publish if and only if the re-index succeeded): once the re-index of
\* a tick has ended, the live list is the candidate list `updated` when it
\* succeeded; when ingestion or the commit failed or the worker panicked,
\* the live list and the committed index are those of the start of the tick.
C1_PublishIffReindexSucceeded ==
    /\ (w_pc = "sleep" /\ w_result = "ok") => urls = updated
    /\ ReindexFailed => (urls = tick0.urls /\ committed = tick0.committed)
    /\ (w_pc = "sleep" /\ ReindexFailed) => urls # updated

\* a tick that had a version to remove and one to add, and failed
C1_Witness ==
    /\ w_pc = "sleep"
    /\ ReindexFailed
    /\ removed # << >>
    /\ added # << >>
    /\ committed # << >>

\* C2 (no live version without documents): every version URL of the live
\* list has documents in the committed index, in every reachable state.
C2_LiveVersionsHaveDocuments ==
    \A v \in Range(urls) : HasVersion(committed, v)

\* C3 (a failed probe skips the tick): in a tick where a probe failed or
\* timed out, the loop is back at its sleep, no writer holds a batch, the
\* index and the live list are those of the start of the tick; every tick
\* starts from an empty candidate list.
C3_FailedProbeSkipsTick ==
    /\ probeFailed => /\ w_pc = "sleep"
                      /\ staged = NoBatch
                      /\ w_result = "none"
                      /\ committed = tick0.committed
                      /\ urls = tick0.urls
    /\ w_pc = "probe1" => updated = << >>

\* the second probe failed after the first one had collected a URL that is
\* not live
C3_Witness ==
    /\ probeFailed
    /\ updated # << >>
    /\ urls # << >>
    /\ \E u \in Range(updated) : u \notin Range(urls)

\* C14 (a record longer than the buffer is a probe error): in a tick where a
\* probe was answered at least 34 bytes with a record whose declared length
\* needs more bytes than remain, the probe failed, the loop is back at its
\* sleep and runs on, and the index and the live list are those of the start
\* of the tick.
C14_ShortRecordIsAProbeError ==
    shortRecord => /\ probeFailed
                   /\ w_pc = "sleep"
                   /\ committed = tick0.committed
                   /\ urls = tick0.urls

Deletes(ops) == {i \in 1..Len(ops) : ops[i].kind = "delete"}
Adds(ops) == {i \in 1..Len(ops) : ops[i].kind = "add"}

\* C13 (the index holds the live versions): whenever the loop is at its sleep
\* the versions with documents in the committed index are the versions of
\* the live list; the batch a re-index commits deletes the versions of
\* prev \ updated, each once, and adds documents of the versions of
\* updated \ prev, each once, and of no other version.
C13_IndexHoldsLiveVersions ==
    /\ w_pc = "sleep" => VersionsOf(committed) = Range(urls)
    /\ w_pc = "commit" =>
          LET gone == Range(tick0.urls) \ Range(updated)
              new  == Range(updated) \ Range(tick0.urls)
          IN  /\ {staged[i].term.text : i \in Deletes(staged)} = gone
              /\ Cardinality(Deletes(staged)) = Cardinality(gone)
              /\ UNION {{staged[i].docs[j].version : j \in DOMAIN staged[i].docs} :
                           i \in Adds(staged)} = new
              /\ Cardinality(Adds(staged)) = Cardinality(new)

\* after a re-index that removed one version and added another, a third one
\* stayed live
C13_Witness ==
    /\ w_pc = "sleep"
    /\ w_result = "ok"
    /\ removed # << >>
    /\ added # << >>
    /\ \E v \in Range(urls) : v \in Range(tick0.urls) /\ HasVersion(committed, v)

\* C5 (tenant isolation): after a successful re-index, no document of a
\* removed version is in the committed index, and the documents of every
\* version that was not removed are the ones it had before, unchanged.
C5_TenantIsolation ==
    w_result = "ok" =>
        /\ \A v \in Range(removed) : ~HasVersion(committed, v)
        /\ \A v \in VersionsOf(tick0.committed) \ Range(removed) :
               DocsOf(committed, v) = DocsOf(tick0.committed, v)

\* a re-index that removed one version and kept another
C5_Witness ==
    /\ w_result = "ok"
    /\ removed # << >>
    /\ VersionsOf(tick0.committed) \ Range(removed) # {}

\* C8 (GET /version): with exactly two live entries the answer is the first
\* for poe=1 and the second for poe=2; with any other number of entries it
\* is the empty string.
C8_VersionEndpoint ==
    /\ (Len(v_resp.seen) = 2 /\ v_resp.poe = 1) => v_resp.body = v_resp.seen[1]
    /\ (Len(v_resp.seen) = 2 /\ v_resp.poe = 2) => v_resp.body = v_resp.seen[2]
    /\ Len(v_resp.seen) # 2 => v_resp.body = << >>

\* a request answered while three versions were live
C8_Witness ==
    /\ Len(v_resp.seen) = 3
    /\ v_resp.poe = 1
    /\ v_resp.body = << >>

-----------------------------------------------------------------------------
(* GET /files served while the watcher re-indexes: two endpoints that       *)
(* announce one URL each, the reader reloading on its own                   *)

ServeResponses ==
    { [io |-> "timeout", read |-> 0, body |-> << >>],
      Response(<< >>),
      Response(<<1, 97, 0>>),
      Response(<<1, 98, 0>>) }

ServeNext ==
    \/ Tick(MaxServeTicks)
    \/ Probe1(ServeResponses)
    \/ Probe2(ServeResponses)
    \/ Diff
    \/ Stage
    \/ Commit(TRUE)
    \/ Publish
    \/ ReaderReload
    \/ Begin(ServeQueries)
    \/ TakeSearcher
    \/ Search
    \/ Fetch

SpecServe == Init /\ [][ServeNext]_vars

\* the response of the request in flight was computed from the index state s
ComputedFrom(s) ==
    LET m == Matching(build_query(h_req, h_adapter), s, {})
        limit == effective_limit(h_req)
    IN  /\ h_found \in Collections(m, limit)
        /\ h_resp.files = [i \in 1..Len(h_found) |->
                               process_doc(h_adapter, s[h_found[i]])]
                          \/ (limit = None /\ h_resp.files =
                                sort_by([i \in 1..Len(h_found) |->
                                            process_doc(h_adapter, s[h_found[i]])]))

\* C4 (no torn read): the files of every answered request are the result of
\* its query on one state the index was committed in.
C4_SingleCommittedState ==
    (h_pc = "done" /\ h_resp.status = 200 /\ h_req.command # "ready"
                   /\ h_req.filter = "none") =>
        \E s \in commits : ComputedFrom(s)

\* a request answered with documents while a commit replaced them
C4_Witness ==
    /\ h_pc = "done"
    /\ h_resp.status = 200
    /\ h_resp.files # << >>
    /\ h_searcher # committed
    /\ h_searcher # readerView

\* C7 (adapter selection): a request that found the live list empty is
\* answered 503; otherwise its adapter is the supplied one when that is a
\* member of its clone of the live list, and the first member when none was
\* supplied or the supplied one is no member.
C7_AdapterSelection ==
    h_pc # "idle" =>
        IF h_storages = << >>
        THEN h_pc = "done" /\ h_resp.status = 503
        ELSE /\ h_resp.status # 503
             /\ h_adapter \in Range(h_storages)
             /\ IF h_req.adapter # None /\ h_req.adapter[1] \in Range(h_storages)
                THEN h_adapter = h_req.adapter[1]
                ELSE h_adapter = h_storages[1]

\* the supplied adapter is the second of two live versions
C7_Witness ==
    /\ h_pc # "idle"
    /\ Len(h_storages) = 2
    /\ h_req.adapter = Some(h_storages[2])
    /\ h_adapter = h_storages[2]

-----------------------------------------------------------------------------
(* GET /files against one index: the server after the tick that made       *)
(* version a live, for each catalog of QueryCatalogs that a may serve       *)

SpriteRows ==
    <<Row(<<"a", "/", "S">>, <<"X">>, U64(0), U64(0), U64(1), U64(1)),
      Row(<<"b">>, <<"x">>, U64(2), U64(1), U64(0), U64(3))>>

QueryCatalogs ==
    { GoodCatalog,
      Catalog(<<P_abx, P_aby, P_x>>, {P_abx, P_aby, P_x}, << >>, "ok"),
      Catalog(<<P_dbr, P_ax>>, {P_dbr}, << >>, "ok"),
      Catalog(<<P_art, P_ax>>, {P_art, P_ax}, SpriteRows, "ok") }

QueryInit ==
    /\ HandlerInit
    /\ cat = NoCatalog
    /\ ing = NoIngest
    /\ table = NoTable
    /\ dec = NoDecode
    /\ \E c \in QueryCatalogs :
          /\ index(U_a, c).status = "ok"
          /\ committed = index(U_a, c).docs
    /\ urls = <<U_a>>
    /\ readerView = committed
    /\ commits = { << >>, committed }
    /\ w_pc = "sleep"
    /\ updated = <<U_a>>
    /\ removed = << >>
    /\ added = <<U_a>>
    /\ staged = NoBatch
    /\ w_result = "ok"
    /\ ticks = 1
    /\ tick0 = [urls |-> << >>, committed |-> << >>]
    /\ probeFailed = FALSE
    /\ shortRecord = FALSE

QueryNext ==
    \/ Begin(Queries)
    \/ TakeSearcher
    \/ Search
    \/ Fetch

SpecQuery == QueryInit /\ [][QueryNext]_vars

\* l does not come after r in (type, path, basename) order, dir before file
InOrder(l, r) ==
    \/ TypeRank(l.node_type) < TypeRank(r.node_type)
    \/ /\ l.node_type = r.node_type
       /\ \/ StrLess(l.path, r.path)
          \/ l.path = r.path /\ ~StrLess(r.basename, l.basename)

Sorted(files) == \A i \in 1..(Len(files) - 1) : InOrder(files[i], files[i + 1])

Answered(commands) ==
    /\ h_pc = "done"
    /\ h_resp.status = 200
    /\ h_req.command \in commands
    /\ h_req.limit = None

\* C9 as claimed (sorted when unlimited, every command): the files of an
\* answer to details, index, subfolders or search without `limit` are in
\* (type, path, basename) order.
C9_SortedForEveryCommand ==
    Answered({"details", "index", "subfolders", "search"}) => Sorted(h_resp.files)

\* C9 as amended (sorted when unlimited, search apart): the files of an
\* answer to details, index or subfolders without `limit` are in
\* (type, path, basename) order.
C9_SortedWhenUnlimited ==
    Answered({"details", "index", "subfolders"}) => Sorted(h_resp.files)

\* an unlimited listing of a directory and a file that were collected in
\* another order than the one they are answered in
C9_Witness ==
    /\ Answered({"index"})
    /\ \E i, j \in 1..Len(h_resp.files) :
          h_resp.files[i].node_type # h_resp.files[j].node_type
    /\ h_resp.files # render_files_unsorted(h_searcher, h_found, h_adapter, None)

-----------------------------------------------------------------------------
(* Ingestion alone: index() applied to every catalog of IngestCatalogs *)

IngestInit ==
    /\ WatcherInit
    /\ HandlerInit
    /\ cat \in IngestCatalogs(MaxPaths)
    /\ ing = NoIngest
    /\ table = NoTable
    /\ dec = NoDecode

Ingest ==
    /\ ing.status = "none"
    /\ ing' = index(IngestVersion, cat)
    /\ UNCHANGED <<cat, decodeVars, watcherVars, handlerVars, v_resp>>

IngestNext == Ingest

SpecIngest == IngestInit /\ [][IngestNext]_vars

\* the proper prefixes of p that end before a slash
Prefixes(p) == {SubSeq(p, 1, k - 1) : k \in {i \in 1..Len(p) : p[i] = "/"}}

DirDocsAt(docs, version, path) ==
    {j \in 1..Len(docs) : /\ docs[j].typ = "dir"
                          /\ docs[j].version = version
                          /\ docs[j].path = path}

\* C6 (directory closure): after a version is ingested, every proper prefix
\* of every File document's path has exactly one Directory document of that
\* version among the documents the writer received.
C6_DirectoryClosure ==
    ing.status = "ok" =>
        \A i \in 1..Len(ing.docs) :
            ing.docs[i].typ = "file" =>
                \A d \in Prefixes(ing.docs[i].path) :
                    Cardinality(DirDocsAt(ing.docs, ing.docs[i].version, d)) = 1

\* two files under a/b: the second walk of add_dirs exits at a/b
C6_Witness ==
    /\ ing.status = "ok"
    /\ cat.paths = <<P_abx, P_aby>>
    /\ Cardinality(DirDocsAt(ing.docs, IngestVersion, <<"a">>)) = 1

OrphanPaths(c) == {p \in Range(c.paths) : p \notin DOMAIN c.files}

\* C10 (orphan paths are not fatal): when nothing else is wrong with a
\* catalog (the downloads succeed, FRONTEND_URL is set, the bundle indexes
\* are in range), paths without a file-table entry do not make its ingestion
\* fail.
C10_OrphanIsNotFatal ==
    (ing.status # "none" /\ cat.env = "ok") => ing.status = "ok"

-----------------------------------------------------------------------------
(* decode_paths alone, on bounded path tables *)

DecodeInit ==
    /\ WatcherInit
    /\ HandlerInit
    /\ cat = NoCatalog
    /\ ing = NoIngest
    /\ table \in {t \in Tables(MaxRecords) : t.cut <= Len(TableBytes(t.records))}
    /\ dec = DecodeStart

\* the loop of decode_paths, one iteration at a time
Decode ==
    /\ dec.pc = "loop"
    /\ dec' = decode_step(table.bytes, dec)
    /\ UNCHANGED <<table, cat, ing, watcherVars, handlerVars, v_resp>>

DecodeNext == Decode

SpecDecode == DecodeInit /\ [][DecodeNext]_vars

\* the state machine of the path table on whole records: emit phase and no
\* bases at the start, a zero command toggles the phase and clears the bases
\* on entering base-building, any other command yields bases[cmd-1] ++ f or
\* f, into the bases when base-building and to the callback when emitting
PathMachineStep(st, r) ==
    IF r.cmd = 0
    THEN [st EXCEPT !.building = ~st.building,
                    !.bases = IF st.building THEN st.bases ELSE << >>]
    ELSE LET f == [i \in 1..Len(r.fragment) |-> Utf8Chr(r.fragment[i])]
             y == IF r.cmd <= Len(st.bases) THEN st.bases[r.cmd] \o f ELSE f
         IN  IF st.building THEN [st EXCEPT !.bases = Append(st.bases, y)]
             ELSE [st EXCEPT !.emitted = Append(st.emitted, y)]

RECURSIVE PathMachine(_, _, _)
PathMachine(records, n, st) ==
    IF n = 0 THEN st
    ELSE PathMachineStep(PathMachine(records, n - 1, st), records[n])

PathMachineStart == [building |-> FALSE, bases |-> << >>, emitted |-> << >>]

WellFormed(t) ==
    /\ t.cut = 0
    /\ \A i \in 1..Len(t.records) : Utf8Valid(t.records[i].fragment)

\* the records decode_paths has consumed when its cursor is at pos
Consumed(t, pos) ==
    CHOOSE n \in 0..Len(t.records) : Len(TableBytes(SubSeq(t.records, 1, n))) = pos

\* C11 (the path decoder is the path state machine): on a well-formed table
\* decode_paths never fails, and after every iteration its phase, its base
\* list and the strings it has passed to the callback, in order, are those
\* of the state machine run on the records consumed so far.
C11_DecoderIsPathMachine ==
    (WellFormed(table) /\ dec.pc # "none") =>
        /\ dec.pc # "err"
        /\ LET m == PathMachine(table.records, Consumed(table, dec.pos),
                                PathMachineStart)
           IN  /\ dec.base_phase = m.building
               /\ dec.bases = m.bases
               /\ dec.calls = m.emitted
        /\ dec.pc = "ok" => dec.pos = Len(table.bytes)

\* a base is built, the phase toggles back and a path is emitted on the base
C11_Witness ==
    /\ WellFormed(table)
    /\ dec.pc = "ok"
    /\ table.records = <<Toggle, Frag(1, <<98, 47>>), Toggle, Frag(1, <<97>>)>>
    /\ dec.calls = << <<"b", "/", "a">> >>

\* the table ends inside its last fragment, before the NUL, and is valid
\* UTF-8 throughout
EndsInsideFragment(t) ==
    /\ t.records # << >>
    /\ t.records[Len(t.records)].cmd # 0
    /\ t.cut >= 1
    /\ t.cut <= Len(t.records[Len(t.records)].fragment)
    /\ \A i \in 1..Len(t.records) : Utf8Valid(t.records[i].fragment)

\* C15 (premature end inside a fragment): when the table ends inside its
\* last fragment, decode_paths ends with an error, and the unterminated
\* fragment reaches neither the callback nor the base list.
C15_UnterminatedFragmentIsAnError ==
    (EndsInsideFragment(table) /\ dec.pc \in {"ok", "err"}) =>
        /\ dec.pc = "err"
        /\ LET m == PathMachine(table.records, Len(table.records) - 1,
                                PathMachineStart)
           IN  dec.bases = m.bases /\ dec.calls = m.emitted
-----------------------------------------------------------------------------
(* Sprite geometry *)

SpriteDocs(docs) == {i \in 1..Len(docs) : docs[i].typ = "sprite"}
IsZero(v) == \A i \in 1..Len(v) : v[i] = 0

\* C12 (sprite geometry): a parsed sprite record never makes the ingestion
\* panic, and every Sprite document has sprite_w >= 1 and sprite_h >= 1 with
\* sprite_w - 1 and sprite_h - 1 the distances of its corners.
C12_SpriteGeometry ==
    /\ (cat.env = "ok" /\ ing.status = "panic") =>
           \A i \in 1..Len(cat.sprite_rows) :
               cat.sprite_rows[i].parsed => ~sprite_overflows(cat.sprite_rows[i])
    /\ \A i \in SpriteDocs(ing.docs) :
           /\ ~IsZero(ing.docs[i].sprite_w[1])
           /\ ~IsZero(ing.docs[i].sprite_h[1])
-----------------------------------------------------------------------------
(* Extensions and sprite containers *)

\* C16 (the extension is that of the last segment): every File document has
\* as extension what follows the last `.` of its name, and none when its
\* name holds no `.`, whatever the directories of its path are called.
C16_ExtensionOfLastSegment ==
    \A i \in 1..Len(ing.docs) :
        ing.docs[i].typ = "file" =>
            LET sp == rsplit_once(ing.docs[i].name, ".")
            IN  ing.docs[i].extension = IF sp = None THEN None ELSE Some(sp[2])

\* C17 (sprite containers are listed): after a successful ingestion the
\* parent of every Sprite document has a Directory document of the version.
C17_SpriteParentIsListed ==
    ing.status = "ok" =>
        \A i \in SpriteDocs(ing.docs) :
            DirDocsAt(ing.docs, ing.docs[i].version, ing.docs[i].parent) # {}
=============================================================================
